---- MODULE Spec2Model ----
(***************************************************************************)
(* The Product variant model and the Inventory store of src/app.py.        *)
(*                                                                         *)
(* A Python object is a record of its attributes plus its class (cls).     *)
(* The dict Inventory._products is a sequence of items [key, val] in       *)
(* insertion order, keys distinct.  A str is a sequence of one-letter      *)
(* strings where its characters matter (ISO dates), None is the record     *)
(* None, a datetime.date is a record [k |-> "date", y, m, d].  A call      *)
(* returns a record whose field exc names the exception it raised, or      *)
(* "none".  Prices are whole currency units: float rounding is not         *)
(* modelled.                                                               *)
(***************************************************************************)
EXTENDS Integers, Sequences, FiniteSets, TLC

VARIABLES products, file, last

vars == <<products, file, last>>

(***************************************************************************)
(* Bounds of the model.                                                    *)
(***************************************************************************)
\* the largest number of units in stock, over the whole store, that add and
\* restock build up
MaxStock == 2

(***************************************************************************)
(* Values: None, dates, strings.                                           *)
(***************************************************************************)
None == [k |-> "none"]

Date(y, m, d) == [k |-> "date", y |-> y, m |-> m, d |-> d]

Str(chars) == [k |-> "str", s |-> chars]

DigitChars == <<"0", "1", "2", "3", "4", "5", "6", "7", "8", "9">>

IsDigit(c) == \E i \in 1..10 : DigitChars[i] = c

DigitVal(c) == (CHOOSE i \in 1..10 : DigitChars[i] = c) - 1

IsLeap(y) == (y % 4 = 0 /\ y % 100 # 0) \/ y % 400 = 0

DaysInMonth(y, m) ==
    IF m = 2 THEN (IF IsLeap(y) THEN 28 + 1 ELSE 28)
    ELSE IF m \in {4, 6, 9, 11} THEN 30 ELSE 31

\* date.__lt__
DateLt(a, b) ==
    \/ a.y < b.y
    \/ a.y = b.y /\ a.m < b.m
    \/ a.y = b.y /\ a.m = b.m /\ a.d < b.d

\* isoformat with day and month swapped: "YYYY-DD-MM"
isoformat_ydm(d) ==
    << DigitChars[((d.y \div 1000) % 10) + 1], DigitChars[((d.y \div 100) % 10) + 1],
       DigitChars[((d.y \div 10) % 10) + 1], DigitChars[(d.y % 10) + 1], "-",
       DigitChars[((d.d \div 10) % 10) + 1], DigitChars[(d.d % 10) + 1], "-",
       DigitChars[((d.m \div 10) % 10) + 1], DigitChars[(d.m % 10) + 1] >>

\* date.isoformat(): "YYYY-MM-DD", zero padded
isoformat(d) ==
    << DigitChars[((d.y \div 1000) % 10) + 1], DigitChars[((d.y \div 100) % 10) + 1],
       DigitChars[((d.y \div 10) % 10) + 1], DigitChars[(d.y % 10) + 1], "-",
       DigitChars[((d.m \div 10) % 10) + 1], DigitChars[(d.m % 10) + 1], "-",
       DigitChars[((d.d \div 10) % 10) + 1], DigitChars[(d.d % 10) + 1] >>

RECURSIVE Number(_)
\* the value of a sequence of digits
Number(cs) ==
    IF cs = <<>> THEN 0
    ELSE 10 * Number(SubSeq(cs, 1, Len(cs) - 1)) + DigitVal(cs[Len(cs)])

AllDigits(cs) == \A i \in 1..Len(cs) : IsDigit(cs[i])

\* the positions of "-" in s
Dashes(s) == {i \in 1..Len(s) : s[i] = "-"}

\* datetime.strptime(s, "%Y-%m-%d").date(): a 4-digit year, a month and a day
\* of one or two digits, a date of the calendar; ValueError otherwise
strptime(s) ==
    IF Cardinality(Dashes(s)) # 2 THEN [exc |-> "ValueError", date |-> None]
    ELSE
      LET i == CHOOSE a \in Dashes(s) : \A b \in Dashes(s) : a <= b
          j == CHOOSE a \in Dashes(s) : \A b \in Dashes(s) : b <= a
          ys == SubSeq(s, 1, i - 1)
          ms == SubSeq(s, i + 1, j - 1)
          ds == SubSeq(s, j + 1, Len(s))
      IN IF /\ Len(ys) = 4 /\ Len(ms) \in {1, 2} /\ Len(ds) \in {1, 2}
            /\ AllDigits(ys) /\ AllDigits(ms) /\ AllDigits(ds)
            /\ Number(ys) >= 1
            /\ Number(ms) \in 1..12
            /\ Number(ds) >= 1
            /\ Number(ds) <= DaysInMonth(Number(ys), Number(ms))
         THEN [exc |-> "none", date |-> Date(Number(ys), Number(ms), Number(ds))]
         ELSE [exc |-> "ValueError", date |-> None]

(***************************************************************************)
(* Product and its subclasses.                                             *)
(***************************************************************************)
\* Electronics.__init__
Electronics(product_id, name, price, quantity_in_stock, warranty_years, brand) ==
    [cls |-> "Electronics", _product_id |-> product_id, _name |-> name,
     _price |-> price, _quantity_in_stock |-> quantity_in_stock,
     warranty_years |-> warranty_years, brand |-> brand]

\* Grocery.__init__: a str is parsed, anything else is stored as it is.
\* The result is [exc, obj].
Grocery(product_id, name, price, quantity_in_stock, expiry_date) ==
    LET parsed == IF expiry_date.k = "str" THEN strptime(expiry_date.s)
                  ELSE [exc |-> "none", date |-> expiry_date]
    IN [exc |-> parsed.exc,
        obj |-> [cls |-> "Grocery", _product_id |-> product_id, _name |-> name,
                 _price |-> price, _quantity_in_stock |-> quantity_in_stock,
                 expiry_date |-> parsed.date]]

\* Clothing.__init__
Clothing(product_id, name, price, quantity_in_stock, size, material) ==
    [cls |-> "Clothing", _product_id |-> product_id, _name |-> name,
     _price |-> price, _quantity_in_stock |-> quantity_in_stock,
     size |-> size, material |-> material]

\* restock with = in place of +=
restock_assign(p, amount) ==
    [exc |-> "none",
     obj |-> [p EXCEPT !._quantity_in_stock = amount],
     ret |-> [k |-> "msg", verb |-> "Restocked", n |-> amount, name |-> p._name]]

\* Product.restock
restock(p, amount) ==
    [exc |-> "none",
     obj |-> [p EXCEPT !._quantity_in_stock = @ + amount],
     ret |-> [k |-> "msg", verb |-> "Restocked", n |-> amount, name |-> p._name]]

\* sell without the stock test
sell_unchecked(p, quantity) ==
    [exc |-> "none",
     obj |-> [p EXCEPT !._quantity_in_stock = @ - quantity],
     ret |-> [k |-> "msg", verb |-> "Sold", n |-> quantity, name |-> p._name]]

\* sell with >= in place of >: selling the whole stock is refused
sell_strict(p, quantity) ==
    IF quantity >= p._quantity_in_stock
    THEN [exc |-> "ValueError", obj |-> p, ret |-> None]
    ELSE [exc |-> "none",
          obj |-> [p EXCEPT !._quantity_in_stock = @ - quantity],
          ret |-> [k |-> "msg", verb |-> "Sold", n |-> quantity, name |-> p._name]]

\* Product.sell
sell(p, quantity) ==
    IF quantity > p._quantity_in_stock
    THEN [exc |-> "ValueError", obj |-> p, ret |-> None]
    ELSE [exc |-> "none",
          obj |-> [p EXCEPT !._quantity_in_stock = @ - quantity],
          ret |-> [k |-> "msg", verb |-> "Sold", n |-> quantity, name |-> p._name]]

\* get_total_value without the quantity
get_total_value_unit(p) == p._price

\* Product.get_total_value
get_total_value(p) == p._price * p._quantity_in_stock

\* Product.get_id
get_id(p) == p._product_id

\* Grocery.is_expired: None < date raises TypeError
is_expired(p, now) ==
    IF p.expiry_date.k # "date" THEN [exc |-> "TypeError", val |-> FALSE]
    ELSE [exc |-> "none", val |-> DateLt(p.expiry_date, now)]

\* Product.to_dict
Product_to_dict(p) ==
    [type |-> p.cls, product_id |-> p._product_id, name |-> p._name,
     price |-> p._price, quantity |-> p._quantity_in_stock]

\* dict.update: the keys of b added to a, b's values winning
Update(a, b) ==
    [key \in DOMAIN a \cup DOMAIN b |-> IF key \in DOMAIN b THEN b[key] ELSE a[key]]

\* Electronics.to_dict
Electronics_to_dict(p) ==
    Update(Product_to_dict(p), [warranty_years |-> p.warranty_years, brand |-> p.brand])

\* Grocery.to_dict: None has no isoformat (AttributeError)
Grocery_to_dict(p) ==
    IF p.expiry_date.k # "date" THEN [exc |-> "AttributeError", data |-> None]
    ELSE [exc |-> "none",
          data |-> Update(Product_to_dict(p),
                          [expiry_date |-> Str(isoformat(p.expiry_date))])]

\* Clothing.to_dict
Clothing_to_dict(p) ==
    Update(Product_to_dict(p), [size |-> p.size, material |-> p.material])

\* p.to_dict(), dispatched on the class of p; [exc, data]
to_dict(p) ==
    IF p.cls = "Electronics" THEN [exc |-> "none", data |-> Electronics_to_dict(p)]
    ELSE IF p.cls = "Grocery" THEN Grocery_to_dict(p)
    ELSE [exc |-> "none", data |-> Clothing_to_dict(p)]

\* dict.get(key): None when the key is absent
Get(data, key) == IF key \in DOMAIN data THEN data[key] ELSE None

CommonKeys == {"product_id", "name", "price", "quantity"}

\* Product.from_dict; [exc, obj]
from_dict(data) ==
    LET t == IF "type" \in DOMAIN data THEN data["type"] ELSE "None"
    IN IF t \notin {"Electronics", "Grocery", "Clothing"}
       THEN [exc |-> "ValueError", obj |-> None]
       ELSE IF ~(CommonKeys \subseteq DOMAIN data)
       THEN [exc |-> "KeyError", obj |-> None]
       ELSE IF t = "Electronics"
       THEN [exc |-> "none",
             obj |-> Electronics(data["product_id"], data["name"], data["price"],
                                 data["quantity"], Get(data, "warranty_years"),
                                 Get(data, "brand"))]
       ELSE IF t = "Grocery"
       THEN Grocery(data["product_id"], data["name"], data["price"],
                    data["quantity"], Get(data, "expiry_date"))
       ELSE [exc |-> "none",
             obj |-> Clothing(data["product_id"], data["name"], data["price"],
                              data["quantity"], Get(data, "size"),
                              Get(data, "material"))]

(***************************************************************************)
(* dict: a sequence of items [key, val], keys pairwise distinct, in        *)
(* insertion order.                                                        *)
(***************************************************************************)
Keys(d) == {d[i].key : i \in 1..Len(d)}

IndexOf(d, key) == CHOOSE i \in 1..Len(d) : d[i].key = key

\* d[key]
DictGet(d, key) == d[IndexOf(d, key)].val

\* d[key] = val: a present key keeps its position, a new key goes last
DictSet(d, key, val) ==
    IF key \in Keys(d)
    THEN [d EXCEPT ![IndexOf(d, key)] = [key |-> key, val |-> val]]
    ELSE Append(d, [key |-> key, val |-> val])

\* del d[key]
DictDel(d, key) ==
    LET i == IndexOf(d, key)
    IN SubSeq(d, 1, i - 1) \o SubSeq(d, i + 1, Len(d))

(***************************************************************************)
(* Inventory.  Each method takes the dict self._products and returns       *)
(* [exc, products, ret]: the exception raised or "none", the dict when the *)
(* call ends, and the value returned.                                      *)
(***************************************************************************)
\* add_product without the membership test: the stored product is replaced
add_product_overwrite(prods, product) ==
    [exc |-> "none", products |-> DictSet(prods, get_id(product), product),
     ret |-> None]

\* Inventory.add_product
add_product(prods, product) ==
    IF get_id(product) \in Keys(prods)
    THEN [exc |-> "KeyError", products |-> prods, ret |-> None]
    ELSE [exc |-> "none", products |-> DictSet(prods, get_id(product), product),
          ret |-> None]

\* remove_product with dict.pop(product_id, None): an absent id is ignored
remove_product_silent(prods, product_id) ==
    IF product_id \notin Keys(prods)
    THEN [exc |-> "none", products |-> prods, ret |-> None]
    ELSE [exc |-> "none", products |-> DictDel(prods, product_id), ret |-> None]

\* Inventory.remove_product
remove_product(prods, product_id) ==
    IF product_id \notin Keys(prods)
    THEN [exc |-> "KeyError", products |-> prods, ret |-> None]
    ELSE [exc |-> "none", products |-> DictDel(prods, product_id), ret |-> None]

\* Inventory.sell_product: the stored object is mutated in place
sell_product(prods, product_id, quantity) ==
    IF product_id \notin Keys(prods)
    THEN [exc |-> "KeyError", products |-> prods, ret |-> None]
    ELSE LET r == sell(DictGet(prods, product_id), quantity)
         IN [exc |-> r.exc, products |-> DictSet(prods, product_id, r.obj),
             ret |-> r.ret]

\* Inventory.restock_product: the stored object is mutated in place
restock_product(prods, product_id, quantity) ==
    IF product_id \notin Keys(prods)
    THEN [exc |-> "KeyError", products |-> prods, ret |-> None]
    ELSE LET r == restock(DictGet(prods, product_id), quantity)
         IN [exc |-> r.exc, products |-> DictSet(prods, product_id, r.obj),
             ret |-> r.ret]

RECURSIVE SumValues(_, _)
\* sum(p.get_total_value() for p in values), from the i-th value on
SumValues(prods, i) ==
    IF i > Len(prods) THEN 0
    ELSE get_total_value(prods[i].val) + SumValues(prods, i + 1)

\* Inventory.total_inventory_value
total_inventory_value(prods) ==
    [exc |-> "none", products |-> prods,
     ret |-> [k |-> "num", n |-> SumValues(prods, 1)]]

RECURSIVE SweepFrom(_, _, _, _, _)
\* the loop of remove_expired_products over the snapshot list(items), from its
\* i-th item on, with the dict cur and the list removed built so far
SweepFrom(snapshot, i, cur, removed, now) ==
    IF i > Len(snapshot)
    THEN [exc |-> "none", products |-> cur, ret |-> [k |-> "list", items |-> removed]]
    ELSE LET pid == snapshot[i].key
             p == snapshot[i].val
         IN IF p.cls # "Grocery"
            THEN SweepFrom(snapshot, i + 1, cur, removed, now)
            ELSE LET e == is_expired(p, now)
                 IN IF e.exc # "none"
                    THEN [exc |-> e.exc, products |-> cur, ret |-> None]
                    ELSE IF e.val
                    THEN SweepFrom(snapshot, i + 1, DictDel(cur, pid),
                                   Append(removed, p), now)
                    ELSE SweepFrom(snapshot, i + 1, cur, removed, now)

\* Inventory.remove_expired_products
remove_expired_products(prods, now) == SweepFrom(prods, 1, prods, <<>>, now)

(***************************************************************************)
(* Files: a path holds nothing (Absent), text that is no JSON (Garbage),   *)
(* or a JSON array of objects.                                             *)
(***************************************************************************)
Absent == [k |-> "absent"]

Garbage == [k |-> "garbage"]

Json(data) == [k |-> "json", data |-> data]

RECURSIVE DumpFrom(_, _, _)
\* [p.to_dict() for p in values], from the i-th value on
DumpFrom(prods, i, data) ==
    IF i > Len(prods) THEN [exc |-> "none", data |-> data]
    ELSE LET r == to_dict(prods[i].val)
         IN IF r.exc # "none" THEN [exc |-> r.exc, data |-> <<>>]
            ELSE DumpFrom(prods, i + 1, Append(data, r.data))

\* Inventory.save_to_file: the list is built before the file is opened;
\* [exc, products, ret, content], content the file when the call ends
save_to_file(prods, old) ==
    LET r == DumpFrom(prods, 1, <<>>)
    IN IF r.exc # "none"
       THEN [exc |-> r.exc, products |-> prods, ret |-> None, content |-> old]
       ELSE [exc |-> "none", products |-> prods, ret |-> None,
             content |-> Json(r.data)]

RECURSIVE BuildFrom(_, _, _)
\* the dict comprehension of load_from_file, from the i-th item of data on,
\* with the new dict tmp built so far
BuildFrom(data, i, tmp) ==
    IF i > Len(data) THEN [exc |-> "none", dict |-> tmp]
    ELSE IF "product_id" \notin DOMAIN data[i]
    THEN [exc |-> "KeyError", dict |-> tmp]
    ELSE LET r == from_dict(data[i])
         IN IF r.exc # "none" THEN [exc |-> r.exc, dict |-> tmp]
            ELSE BuildFrom(data, i + 1, DictSet(tmp, data[i]["product_id"], r.obj))

\* load_from_file filling self._products in a loop after clearing it: a record
\* that fails leaves the records before it in the store
load_from_file_loop(prods, content) ==
    IF content.k = "absent"
    THEN [exc |-> "FileNotFoundError", products |-> prods, ret |-> None]
    ELSE IF content.k = "garbage"
    THEN [exc |-> "JSONDecodeError", products |-> prods, ret |-> None]
    ELSE LET r == BuildFrom(content.data, 1, <<>>)
         IN [exc |-> r.exc, products |-> r.dict, ret |-> None]

\* Inventory.load_from_file: self._products is assigned once, after the
\* comprehension has ended without an exception
load_from_file(prods, content) ==
    IF content.k = "absent"
    THEN [exc |-> "FileNotFoundError", products |-> prods, ret |-> None]
    ELSE IF content.k = "garbage"
    THEN [exc |-> "JSONDecodeError", products |-> prods, ret |-> None]
    ELSE LET r == BuildFrom(content.data, 1, <<>>)
         IN IF r.exc # "none"
            THEN [exc |-> r.exc, products |-> prods, ret |-> None]
            ELSE [exc |-> "none", products |-> r.dict, ret |-> None]

(***************************************************************************)
(* The inputs explored.                                                    *)
(***************************************************************************)
Ids == {"p1", "p2"}

\* the dates date.today() returns: the wall clock is read at each call
Days == {Date(2024, 12, 31), Date(2025, 1, 1), Date(2025, 1, 2), Date(2025, 1, 3)}

\* the products a caller constructs (main, "Add Product"), quantity >= 0:
\* under p1 an Electronics or a Grocery whose expiry date is given as a date,
\* under p2 a Grocery whose expiry date is given as an ISO string
NewProducts ==
    UNION {
      {Electronics("p1", "Laptop", 10, q, 2, "Acme"),
       Grocery("p1", "Milk", 5, q, Date(2024, 12, 31)).obj,
       Grocery("p2", "Eggs", 3, q,
               Str(<<"2", "0", "2", "5", "-", "0", "1", "-", "0", "2">>)).obj}
      : q \in 0..MaxStock }

RECURSIVE StockFrom(_, _)
\* the units in stock from the i-th product on
StockFrom(prods, i) ==
    IF i > Len(prods) THEN 0
    ELSE prods[i].val._quantity_in_stock + StockFrom(prods, i + 1)

\* amounts sold and restocked: positive (main: min_value=1)
Amounts == 1..(MaxStock + 1)

\* the path save_to_file writes
SavePath == "inventory.json"

GoodElectronics ==
    [type |-> "Electronics", product_id |-> "p1", name |-> "Laptop", price |-> 10,
     quantity |-> 1, warranty_years |-> 2, brand |-> "Acme"]

ExpiredGrocery(id) ==
    [type |-> "Grocery", product_id |-> id, name |-> "Milk", price |-> 5,
     quantity |-> 1,
     expiry_date |-> Str(<<"2", "0", "2", "4", "-", "1", "2", "-", "3", "1">>)]

\* a Grocery record without the key expiry_date
NoExpiryGrocery(id) ==
    [type |-> "Grocery", product_id |-> id, name |-> "Milk", price |-> 5,
     quantity |-> 1]

\* files written by something else than save_to_file, by path
ExternalFiles ==
    [ missing |-> Absent,
      notes |-> Garbage,
      badtag |-> Json(<<GoodElectronics,
                        [type |-> "Toy", product_id |-> "p2", name |-> "Ball",
                         price |-> 3, quantity |-> 1]>>),
      nokey |-> Json(<<[type |-> "Clothing", product_id |-> "p2", price |-> 7,
                        quantity |-> 1, size |-> "M", material |-> "Cotton"],
                       GoodElectronics>>),
      noid |-> Json(<<GoodElectronics,
                      [type |-> "Clothing", name |-> "Shirt", price |-> 7,
                       quantity |-> 1, size |-> "M", material |-> "Cotton"]>>),
      baddate |-> Json(<<GoodElectronics,
                         [type |-> "Grocery", product_id |-> "p2", name |-> "Milk",
                          price |-> 5, quantity |-> 1,
                          expiry_date |->
                            Str(<<"2", "0", "2", "5", "-", "0", "2", "-", "3", "0">>)]>>),
      noexpiry1 |-> Json(<<ExpiredGrocery("p1"), NoExpiryGrocery("p2")>>),
      noexpiry2 |-> Json(<<NoExpiryGrocery("p2"), ExpiredGrocery("p1")>>) ]

Paths == {SavePath} \cup DOMAIN ExternalFiles

\* what open(path) finds
ReadFile(path) == IF path = SavePath THEN file ELSE ExternalFiles[path]

(***************************************************************************)
(* The store as a state machine: products is Inventory._products, file the *)
(* content of SavePath, last the operation called last with the exception  *)
(* it raised.                                                              *)
(***************************************************************************)
Called(op, r) == [op |-> op, exc |-> r.exc]

Init ==
    /\ products = <<>>
    /\ file = Absent
    /\ last = [op |-> "init", exc |-> "none"]

\* add and restock are explored while the store holds at most MaxStock units
Add(p) ==
    /\ StockFrom(products, 1) + p._quantity_in_stock <= MaxStock
    /\ LET r == add_product(products, p)
       IN /\ products' = r.products
          /\ last' = Called("add", r)
          /\ UNCHANGED file

Remove(id) ==
    LET r == remove_product(products, id)
    IN /\ products' = r.products
       /\ last' = Called("remove", r)
       /\ UNCHANGED file

Sell(id, q) ==
    LET r == sell_product(products, id, q)
    IN /\ products' = r.products
       /\ last' = Called("sell", r)
       /\ UNCHANGED file

Restock(id, q) ==
    /\ StockFrom(products, 1) + q <= MaxStock
    /\ LET r == restock_product(products, id, q)
       IN /\ products' = r.products
          /\ last' = Called("restock", r)
          /\ UNCHANGED file

TotalValue ==
    LET r == total_inventory_value(products)
    IN /\ products' = r.products
       /\ last' = Called("total", r)
       /\ UNCHANGED file

SweepExpired(now) ==
    LET r == remove_expired_products(products, now)
    IN /\ products' = r.products
       /\ last' = Called("sweep", r)
       /\ UNCHANGED file

Save ==
    LET r == save_to_file(products, file)
    IN /\ products' = r.products
       /\ file' = r.content
       /\ last' = Called("save", r)

Load(path) ==
    LET r == load_from_file(products, ReadFile(path))
    IN /\ products' = r.products
       /\ last' = Called("load", r)
       /\ UNCHANGED file

Next ==
    \/ \E p \in NewProducts : Add(p)
    \/ \E id \in Ids : Remove(id)
    \/ \E id \in Ids, q \in Amounts : Sell(id, q)
    \/ \E id \in Ids, q \in Amounts : Restock(id, q)
    \/ TotalValue
    \/ \E now \in Days : SweepExpired(now)
    \/ Save
    \/ \E path \in Paths : Load(path)

Spec == Init /\ [][Next]_vars

(***************************************************************************)
(* Save and load into a fresh store.  The store starts as any inventory    *)
(* of up to three products built by the constructors, in any order; it is  *)
(* saved, and the file is loaded by a new Inventory().                     *)
(***************************************************************************)
SavedProducts ==
    UNION {
      {Electronics("p1", "Laptop", 10, q, 2, "Acme"),
       Clothing("p3", "Shirt", 7, q, "M", "Cotton")}
      \cup {Grocery("p2", "Milk", 5, q, e).obj :
              e \in {Date(2024, 2, 29), Date(999, 10, 9),
                     Str(<<"2", "0", "2", "5", "-", "0", "1", "-", "0", "2">>)}}
      : q \in {0, MaxStock} }

\* the dicts add_product builds from SavedProducts
SavedInventories ==
    {[i \in 1..Len(ps) |-> [key |-> get_id(ps[i]), val |-> ps[i]]] :
       ps \in {qs \in UNION {[1..n -> SavedProducts] : n \in 0..3} :
                 \A i, j \in 1..Len(qs) : get_id(qs[i]) = get_id(qs[j]) => i = j}}

InitSaved ==
    /\ products \in SavedInventories
    /\ file = Absent
    /\ last = [op |-> "init", exc |-> "none"]

\* Inventory() followed by load_from_file(SavePath)
LoadFresh ==
    LET r == load_from_file(<<>>, ReadFile(SavePath))
    IN /\ products' = r.products
       /\ last' = Called("load", r)
       /\ UNCHANGED file

NextSaved == Save \/ LoadFresh

SpecSaved == InitSaved /\ [][NextSaved]_vars

(***************************************************************************)
(* Properties.  The operations are checked in every reachable state of the *)
(* store, for every input: a property of Spec quantifies over the calls    *)
(* the next step may make and states what each raises, returns and leaves. *)
(***************************************************************************)
Qty(prods, id) == DictGet(prods, id)._quantity_in_stock

\* the same keys in the same order, and the same value under every key but id
SameBut(a, b, id) ==
    /\ Len(a) = Len(b)
    /\ \A i \in 1..Len(a) :
         /\ a[i].key = b[i].key
         /\ a[i].key # id => a[i].val = b[i].val

\* the attributes of an object other than its quantity
Frozen(p) == [f \in DOMAIN p \ {"_quantity_in_stock"} |-> p[f]]

\* C1: every product in the inventory has quantity >= 0 in every reachable
\* state (the files loaded are those save_to_file wrote and the files of
\* ExternalFiles, whose quantities are not negative), and a sell of more
\* than the stock is rejected with the whole inventory as it was.
C1_QuantityNonNegative ==
    /\ \A i \in 1..Len(products) : products[i].val._quantity_in_stock >= 0
    /\ \A id \in Keys(products), q \in Amounts :
         LET r == sell_product(products, id, q)
         IN /\ Qty(r.products, id) >= 0
            /\ Qty(products, id) - q < 0 => r.exc # "none" /\ r.products = products

\* C1 witness: a sell was rejected while units were in stock
C1_Witness ==
    /\ last = [op |-> "sell", exc |-> "ValueError"]
    /\ \E i \in 1..Len(products) : products[i].val._quantity_in_stock >= 1

\* C2: for a stored product with quantity n and a positive q, sell(id, q)
\* with q <= n succeeds and leaves n - q (0 when q = n); with q > n it
\* raises ValueError (InsufficientStock) and leaves n.
C2_SellExact ==
    \A id \in Keys(products), q \in Amounts :
        LET n == Qty(products, id)
            r == sell_product(products, id, q)
        IN /\ q = n => r.exc = "none" /\ Qty(r.products, id) = 0
           /\ q <= n => r.exc = "none" /\ Qty(r.products, id) = n - q
           /\ q > n => r.exc = "ValueError" /\ Qty(r.products, id) = n

\* C2 witness: a sell succeeded and a product is sold out
C2_Witness ==
    /\ last = [op |-> "sell", exc |-> "none"]
    /\ \E i \in 1..Len(products) : products[i].val._quantity_in_stock = 0

\* the paths whose file cannot be read, cannot be parsed, or holds a record
\* that does not deserialize
BadPaths == {"missing", "notes", "badtag", "nokey", "noid", "baddate"}

\* C3: load_from_file is all-or-nothing: a file that cannot be read or
\* parsed, or one of whose records has an unknown type tag, lacks a common
\* key or holds an unparsable expiry date, makes the call raise, and a call
\* that raises leaves the collection exactly as it was.
C3_LoadAllOrNothing ==
    \A path \in Paths :
        LET r == load_from_file(products, ReadFile(path))
        IN /\ path \in BadPaths => r.exc # "none"
           /\ r.exc # "none" => r.products = products

\* C3 witness: a load raised on a record while the store held products
C3_Witness ==
    /\ last.op = "load"
    /\ last.exc \in {"ValueError", "KeyError"}
    /\ products # <<>>

\* C4: for every inventory built by add, save_to_file followed by
\* load_from_file of that file into a fresh store raises nothing and yields
\* the same ids and, under each id, an object of the same class with the
\* same values of all its attributes (the expiry date included).
C4_RoundTrip ==
    LET s == save_to_file(products, file)
        l == load_from_file(<<>>, s.content)
    IN /\ s.exc = "none"
       /\ l.exc = "none"
       /\ Keys(l.products) = Keys(products)
       /\ \A id \in Keys(products) :
            /\ id \in Keys(l.products)
            /\ DictGet(l.products, id) = DictGet(products, id)

\* C4 witness: a fresh store loaded a saved file of three products
C4_Witness ==
    /\ last = [op |-> "load", exc |-> "none"]
    /\ file.k = "json"
    /\ Len(products) = 3

\* C5: add of a product whose id is a key raises KeyError (DuplicateKey) and
\* leaves the collection as it was; add of a product with a new id stores
\* it under that id and changes no other entry.
C5_AddDuplicate ==
    \A p \in NewProducts :
        LET r == add_product(products, p)
        IN IF get_id(p) \in Keys(products)
           THEN r.exc = "KeyError" /\ r.products = products
           ELSE /\ r.exc = "none"
                /\ Keys(r.products) = Keys(products) \cup {get_id(p)}
                /\ DictGet(r.products, get_id(p)) = p
                /\ \A id \in Keys(products) :
                     DictGet(r.products, id) = DictGet(products, id)

\* C5 witness: an add was rejected as a duplicate
C5_Witness ==
    /\ last = [op |-> "add", exc |-> "KeyError"]
    /\ products # <<>>

\* the positions of the Grocery products whose expiry date is before now
ExpiredAt(prods, now) ==
    {i \in 1..Len(prods) :
        /\ prods[i].val.cls = "Grocery"
        /\ prods[i].val.expiry_date.k = "date"
        /\ DateLt(prods[i].val.expiry_date, now)}

RECURSIVE Keep(_, _, _)
\* the items of prods from the i-th on whose position is not in S
Keep(prods, i, S) ==
    IF i > Len(prods) THEN <<>>
    ELSE IF i \in S THEN Keep(prods, i + 1, S)
    ELSE <<prods[i]>> \o Keep(prods, i + 1, S)

\* what C6 says of a sweep at now: the return value, the collection left
\* and the total value
SweepsExactly(prods, now) ==
    LET r == remove_expired_products(prods, now)
        E == ExpiredAt(prods, now)
    IN /\ r.ret.k = "list"
       /\ Len(r.ret.items) = Cardinality(E)
       /\ {r.ret.items[j] : j \in 1..Len(r.ret.items)} = {prods[i].val : i \in E}
       /\ r.products = Keep(prods, 1, E)
       /\ SumValues(r.products, 1) =
            SumValues(prods, 1)
              - SumValues([j \in 1..Len(r.ret.items) |->
                             [key |-> get_id(r.ret.items[j]), val |-> r.ret.items[j]]], 1)

\* C6: remove_expired_products removes exactly the Grocery products whose
\* expiry date is strictly before today and returns exactly those; every
\* other product stays as it was; the total value drops by the total value
\* of the removed products.
C6_SweepExact == \A now \in Days : SweepsExactly(products, now)

\* C6 holds of every store all of whose Grocery products hold a date
C6_SweepExactDated ==
    (\A i \in 1..Len(products) :
        products[i].val.cls = "Grocery" => products[i].val.expiry_date.k = "date")
    => \A now \in Days : SweepsExactly(products, now)

\* C7: remove_expired_products never fails, in any reachable state of the
\* store, those reached by loading a Grocery record without expiry_date
\* included.
C7_SweepNeverFails ==
    \A now \in Days : remove_expired_products(products, now).exc = "none"

\* C8: remove of a present id deletes that entry and no other; remove of an
\* absent id raises KeyError (NotFound) and changes nothing; after add(P),
\* remove(P.id) succeeds and the next remove(P.id) raises KeyError.
C8_RemoveExact ==
    /\ \A id \in Ids :
         LET r == remove_product(products, id)
         IN IF id \in Keys(products)
            THEN /\ r.exc = "none"
                 /\ Keys(r.products) = Keys(products) \ {id}
                 /\ \A k \in Keys(r.products) :
                      DictGet(r.products, k) = DictGet(products, k)
            ELSE r.exc = "KeyError" /\ r.products = products
    /\ \A p \in NewProducts :
         get_id(p) \notin Keys(products) =>
            LET a == add_product(products, p)
                r1 == remove_product(a.products, get_id(p))
                r2 == remove_product(r1.products, get_id(p))
            IN a.exc = "none" /\ r1.exc = "none" /\ r2.exc = "KeyError"
               /\ r2.products = products

\* C8 witness: a remove of an absent id was rejected
C8_Witness == last = [op |-> "remove", exc |-> "KeyError"]

RECURSIVE SumOfKeys(_, _)
\* the sum of unit price * quantity over the products stored under keys S
SumOfKeys(prods, S) ==
    IF S = {} THEN 0
    ELSE LET id == CHOOSE x \in S : TRUE
         IN DictGet(prods, id)._price * DictGet(prods, id)._quantity_in_stock
            + SumOfKeys(prods, S \ {id})

\* C9: total_inventory_value returns the sum of unit price * quantity over
\* the products in the collection, 0 when it is empty, raises nothing and
\* changes nothing.
C9_TotalValue ==
    LET r == total_inventory_value(products)
    IN /\ r.exc = "none"
       /\ r.products = products
       /\ r.ret.n = SumOfKeys(products, Keys(products))
       /\ products = <<>> => r.ret.n = 0

\* C9 witness: the total of two products in stock was asked for
C9_Witness ==
    /\ last = [op |-> "total", exc |-> "none"]
    /\ Len(products) = 2
    /\ \A i \in 1..2 : products[i].val._quantity_in_stock > 0

\* C10: sell and restock change the quantity of the product under id and
\* nothing else, whether they succeed or fail; on an absent id both raise
\* KeyError (NotFound) and change nothing; restock(id, a) then sell(id, a)
\* returns the quantity to what it was.
C10_StockFrame ==
    \A id \in Ids, q \in Amounts :
        LET s == sell_product(products, id, q)
            r == restock_product(products, id, q)
            rs == sell_product(r.products, id, q)
        IN IF id \in Keys(products)
           THEN /\ SameBut(s.products, products, id)
                /\ SameBut(r.products, products, id)
                /\ Frozen(DictGet(s.products, id)) = Frozen(DictGet(products, id))
                /\ Frozen(DictGet(r.products, id)) = Frozen(DictGet(products, id))
                /\ r.exc = "none" /\ Qty(r.products, id) = Qty(products, id) + q
                /\ rs.exc = "none" /\ rs.products = products
           ELSE /\ s.exc = "KeyError" /\ s.products = products
                /\ r.exc = "KeyError" /\ r.products = products

\* C10 witness: a restock succeeded in a store of two products
C10_Witness ==
    /\ last = [op |-> "restock", exc |-> "none"]
    /\ Len(products) = 2

====
